---- MODULE Spec2Model ----
(***************************************************************************)
(* A model of the structure-building utilities of FGM_elasticmap:          *)
(*   database_tools.get_structures_from_database / lists_are_multiple      *)
(*   endmember_tools.get_templates / get_endmembers_with_templates         *)
(*   dilute_structure_tools.dilute_substitution (both copies)              *)
(*   sqs_tools.AbstractSQS.get_concrete_sqs / enumerate_sqs                *)
(*   structure_tools.canonicalize_config                                   *)
(* Every function is synchronous and pure apart from the object it builds, *)
(* so each one is an action that reads its arguments from the state and    *)
(* writes its result (or the exception it raised) back to the state.  Each *)
(* component has its own specification; the other components stay idle.    *)
(***************************************************************************)
EXTENDS Integers, Sequences, FiniteSets, TLC

VARIABLES
    \* ---- database_tools.get_structures_from_database
    db,                \* the table: a sequence of records
    prototype,         \* argument prototype
    subl_site_ratios,  \* argument subl_site_ratios
    results,           \* the returned list
    db_pc,             \* "idle" | "call" | "done" | "raise"
    \* ---- database_tools.lists_are_multiple called on its own
    l1, l2,            \* the two lists
    out12, out21,      \* outcome of lists_are_multiple(l1, l2) and (l2, l1)
    mult_pc,           \* "idle" | "call" | "done"
    \* ---- endmember_tools.get_templates / get_endmembers_with_templates
    wyckoff_site_list,         \* argument: the sublattice label of every site
    subl_model_name,           \* argument: the sublattice names
    equivalent_sites,          \* argument: None or a dict label -> label
    sublattice_configuration,  \* argument: the candidate species of every sublattice
    template_structure,        \* returned by get_templates: the sites
    template_configuration,    \* returned by get_templates
    subl_combination,          \* returned by get_endmembers_with_templates
    endmembers,                \* returned by get_endmembers_with_templates
    end_pc,                    \* "idle" | "templates" | "endmembers" | "done"
    \* ---- dilute_structure_tools.dilute_substitution (both copies)
    dil_endmembers,    \* argument endmembers: a list of structures (lists of sites)
    sublattice_dict,   \* argument: sublattice label -> list of species (or 'fix')
    supercell_matrix,  \* argument: 0 for None, else the number of cells of the supercell
    dilute_strs,       \* returned list of structures
    dilute_conf,       \* returned list of configurations
    dil_copy,          \* which copy ran: "none" | "root" | "Structure_Builder"
    dil_pc,            \* "idle" | "call" | "done" | "raise"
    \* ---- sqs_tools.AbstractSQS and enumerate_sqs
    sublattice_model,  \* AbstractSQS.sublattice_model: abstract species per sublattice
    sublattice_names,  \* AbstractSQS._sublattice_names
    abs_sites,         \* the abstract structure: sites per abstract species 'X'+name+species
    subl_model,        \* argument subl_model
    scale_volume,      \* argument scale_volume
    sqs_result,        \* the returned structures (one for get_concrete_sqs)
    sqs_error,         \* "none" | "ValueError" | "KeyError"
    sqs_call,          \* "none" | "get_concrete_sqs" | "enumerate_sqs"
    sqs_pc,            \* "idle" | "call" | "done" | "raise"
    \* ---- structure_tools.canonicalize_config
    configuration,     \* argument configuration
    occupancies,       \* argument occupancies
    canonical,         \* the returned tuple (configuration, occupancies)
    recanonical,       \* canonicalize_config applied to the returned tuple
    canon_pc,          \* "idle" | "call" | "done" | "again"
    \* ---- endmember_tools.get_sublattice_information
    wyckoff_sites,         \* symmetry dataset 'wyckoffs': the Wyckoff letter of every site
    equal_atom,            \* symmetry dataset 'equivalent_atoms' (0-based site indices)
    use_equivalent_atom,   \* argument use_equivalent_atom
    true_sublattice_sites, \* returned: the sublattice name of every site
    info_subl_model_name,  \* returned subl_model_name
    sublattice_site_ratio, \* returned sublattice_site_ratio
    info_pc,               \* "idle" | "call" | "done"
    \* ---- prl_structure.PRLStructure (the fields reindex works on)
    prl_configuration,  \* self.sublattice_configuration
    prl_occupancies,    \* self.sublattice_occupancies
    prl_site_ratios,    \* self.sublattice_site_ratios
    prl_created,        \* the three fields as the constructor set them
    new_indices,        \* argument of the reindex call in progress
    prl_outcome,        \* of the last reindex call: "none" | "returned" | "ValueError"
    prl_pc              \* "idle" | "ready" | "reindex"

dbVars == <<db, prototype, subl_site_ratios, results, db_pc>>
multVars == <<l1, l2, out12, out21, mult_pc>>
endVars == <<wyckoff_site_list, subl_model_name, equivalent_sites,
             sublattice_configuration, template_structure, template_configuration,
             subl_combination, endmembers, end_pc>>
dilVars == <<dil_endmembers, sublattice_dict, supercell_matrix, dilute_strs,
             dilute_conf, dil_copy, dil_pc>>
sqsVars == <<sublattice_model, sublattice_names, abs_sites, subl_model, scale_volume,
             sqs_result, sqs_error, sqs_call, sqs_pc>>
canonVars == <<configuration, occupancies, canonical, recanonical, canon_pc>>
infoVars == <<wyckoff_sites, equal_atom, use_equivalent_atom, true_sublattice_sites,
              info_subl_model_name, sublattice_site_ratio, info_pc>>
prlVars == <<prl_configuration, prl_occupancies, prl_site_ratios, prl_created,
             new_indices, prl_outcome, prl_pc>>
vars == <<dbVars, multVars, endVars, dilVars, sqsVars, canonVars, infoVars, prlVars>>

\* ------------------------------------------------------------------ bounds
MaxLen == 2        \* longest site-ratio vector (number of sublattices)
MaxRatio == 2      \* largest site ratio of one sublattice
MaxDb == 1         \* most records in the table
MaxSubl == 4       \* most sublattice labels of a structure
MaxSites == 4      \* most sites of a structure
MaxDilSites == 3   \* most sites of an endmember handed to dilute_substitution
MaxEnd == 2        \* most endmembers handed to dilute_substitution
MaxAbsTotal == 2   \* most abstract species of an abstract SQS, over all sublattices
MaxCount == 2      \* most sites of one abstract species
MaxCfgSubl == 1    \* most sublattices of a configuration handed to canonicalize_config
MaxCfgLen == 2     \* most species of one sublattice of that configuration
MaxOcc == 3        \* occupancies are 1..MaxOcc (standing for distinct fractions)
MaxInfoSites == 4  \* most sites of a structure handed to get_sublattice_information
MaxPrlSubl == 2    \* most sublattices of a PRLStructure

\* ----------------------------------------------------------------- helpers
SeqsOf(S, lo, hi) == UNION {[1..n -> S] : n \in lo..hi}

RECURSIVE SumSeq(_)
SumSeq(s) == IF s = <<>> THEN 0 ELSE s[1] + SumSeq(Tail(s))

Range(s) == {s[i] : i \in 1..Len(s)}

\* A list comprehension: the list is built once, element by element.
List(f) == f \o <<>>

\* =========================================================================
\* database_tools.py
\* =========================================================================

\* all([(x % y == 0) for x, y in zip(a, b)]): the list is built in full, so a zero
\* in b raises ZeroDivisionError whatever the other entries are.
ZeroDivision(a, b) == \E i \in 1..Len(b) : b[i] = 0

AllDivisible(a, b) == \A i \in 1..Len(a) : a[i] % b[i] = 0

\* len(set([x/y for x, y in zip(a, b)])) == 1; evaluated only when every x is
\* divisible by its y, where x/y is the exact quotient.
SameMultiple(a, b) == Cardinality({a[i] \div b[i] : i \in 1..Len(a)}) = 1

\* A plausible slip: the reversed pair (l2, l1) is never tried.
lists_are_multiple_oneway(a, b) ==
    IF Len(a) # Len(b) THEN "False"
    ELSE IF ZeroDivision(a, b) THEN "raise"
    ELSE IF AllDivisible(a, b) /\ SameMultiple(a, b) THEN "True"
    ELSE "False"

\* lists_are_multiple(l1, l2): "True", "False" or "raise" (ZeroDivisionError).
lists_are_multiple(a, b) ==
    IF Len(a) # Len(b) THEN "False"
    ELSE IF ZeroDivision(a, b) THEN "raise"
    ELSE IF AllDivisible(a, b) /\ SameMultiple(a, b) THEN "True"
    ELSE IF ZeroDivision(b, a) THEN "raise"
    ELSE IF AllDivisible(b, a) /\ SameMultiple(b, a) THEN "True"
    ELSE "False"

\* [sum(subl) for subl in x]
SublSums(x) == [i \in 1..Len(x) |-> SumSeq(x[i])]

\* The query of db.search: (where('prototype') == prototype) & (...test(lambda)).
\* The right operand is evaluated only for records whose prototype matches.
QueryOutcome(r, proto, ratios) ==
    IF r.prototype # proto THEN "False"
    ELSE lists_are_multiple(SublSums(r.sublattice_site_ratios), ratios)

\* The records of the bounded domain.  A sublattice of total ratio n is stored as
\* one species ([n]) or as two ([1, n-1]); the query reads only the sums.
Prototypes == {"GAMMA_L12", "BCC_A2"}
SplitRatio(n) == IF n = 1 THEN <<1>> ELSE <<1, n - 1>>
RatioVectors == SeqsOf(1..MaxRatio, 1, MaxLen)
Records ==
    {[prototype |-> p,
      sublattice_site_ratios |-> [i \in 1..Len(v) |-> SplitRatio(v[i])]] :
        p \in Prototypes, v \in RatioVectors}

DbInit ==
    /\ db \in SeqsOf(Records, 0, MaxDb)
    /\ prototype \in Prototypes
    /\ subl_site_ratios \in RatioVectors
    /\ results = <<>>
    /\ db_pc = "call"

DbIdle ==
    /\ db = <<>>
    /\ prototype = ""
    /\ subl_site_ratios = <<>>
    /\ results = <<>>
    /\ db_pc = "idle"

\* get_structures_from_database(db, prototype, subl_model, subl_site_ratios)
get_structures_from_database ==
    /\ db_pc = "call"
    /\ IF \E i \in 1..Len(db) : QueryOutcome(db[i], prototype, subl_site_ratios) = "raise"
       THEN /\ db_pc' = "raise"
            /\ results' = results
       ELSE /\ db_pc' = "done"
            /\ results' = SelectSeq(db, LAMBDA r :
                              QueryOutcome(r, prototype, subl_site_ratios) = "True")
    /\ UNCHANGED <<db, prototype, subl_site_ratios>>
    /\ UNCHANGED <<multVars, endVars, dilVars, sqsVars, canonVars, infoVars, prlVars>>

\* ---- lists_are_multiple on arbitrary lists of non-negative integers
MultInit ==
    /\ l1 \in SeqsOf(0..MaxRatio, 0, MaxLen)
    /\ l2 \in SeqsOf(0..MaxRatio, 0, MaxLen)
    /\ out12 = "none"
    /\ out21 = "none"
    /\ mult_pc = "call"

MultIdle ==
    /\ l1 = <<>>
    /\ l2 = <<>>
    /\ out12 = "none"
    /\ out21 = "none"
    /\ mult_pc = "idle"

\* The two calls lists_are_multiple(l1, l2) and lists_are_multiple(l2, l1).
CallListsAreMultiple ==
    /\ mult_pc = "call"
    /\ out12' = lists_are_multiple(l1, l2)
    /\ out21' = lists_are_multiple(l2, l1)
    /\ mult_pc' = "done"
    /\ UNCHANGED <<l1, l2>>
    /\ UNCHANGED <<dbVars, endVars, dilVars, sqsVars, canonVars, infoVars, prlVars>>


\* =========================================================================
\* Strings and their order
\* =========================================================================

\* Python compares strings by code point.  The strings of the model, in that
\* order (upper case sorts before lower case).
SortedStrings ==
    <<"B", "Be", "C", "Co", "Fe", "H", "He", "Li", "Ni",
      "a", "a2", "a3", "a4", "a5", "a6", "b", "b2", "b3", "b4", "b5", "b6",
      "c", "d", "e", "fix">>

StrRank(s) == CHOOSE i \in 1..Len(SortedStrings) : SortedStrings[i] = s

StrLess(s, t) == StrRank(s) < StrRank(t)

\* sorted(S) for a set (or the keys of a dict) of strings.
RECURSIVE SortedSet(_)
SortedSet(S) ==
    IF S = {} THEN <<>>
    ELSE LET m == CHOOSE x \in S : \A y \in S : StrRank(x) <= StrRank(y)
         IN  <<m>> \o SortedSet(S \ {m})

\* str(Element.from_Z(z)) for the first elements of the periodic table.
ElementFromZ == <<"H", "He", "Li", "Be", "B", "C">>

\* =========================================================================
\* endmember_tools.py, structure_tools.py (substitution)
\* =========================================================================
NoneDict == [given |-> FALSE, keys |-> {}, map |-> <<>>]
SomeDict(f) == [given |-> TRUE, keys |-> DOMAIN f, map |-> f]

\* A lookup that ignores equivalent_sites.
MergedLabel_unmerged(eq, i) == i

\* equivalent_sites[i] if i in equivalent_sites else i
MergedLabel(eq, i) == IF i \in eq.keys THEN eq.map[i] ELSE i

\* true_sublattice_sites and rep_sublattices of get_templates
TrueSublatticeSites(eq, wyck) ==
    IF eq.given THEN List([i \in 1..Len(wyck) |-> MergedLabel(eq, wyck[i])]) ELSE wyck

\* true_sublattices = sorted(set(rep_sublattices))
TrueSublattices(eq, names) ==
    SortedSet(Range(IF eq.given THEN [i \in 1..Len(names) |-> MergedLabel(eq, names[i])]
                    ELSE names))

\* The loop over true_sublattices: pass i renames to Element.from_Z(i) every site
\* whose element (still) equals true_sublattices[i].
RECURSIVE RenameSites(_, _, _)
RenameSites(sites, subls, i) ==
    IF i > Len(subls) THEN sites
    ELSE RenameSites(
             List([s \in 1..Len(sites) |->
                      IF sites[s].element = subls[i]
                      THEN [sites[s] EXCEPT !.element = ElementFromZ[i]]
                      ELSE sites[s]]),
             subls, i + 1)

\* get_templates: the sites of template_structure.  Every site first gets its
\* label as the property 'sublattice_sites' and as its element.
TemplateSites(eq, wyck, names) ==
    LET labels == TrueSublatticeSites(eq, wyck)
        sites0 == List([s \in 1..Len(labels) |->
                           [element |-> labels[s], sublattice_sites |-> labels[s]]])
    IN  RenameSites(sites0, TrueSublattices(eq, names), 1)

\* get_templates: template_configuration
TemplateConfiguration(eq, names) ==
    List([i \in 1..Len(TrueSublattices(eq, names)) |-> ElementFromZ[i]])

\* dict(map(lambda x, y: [x, y], keys, values)): pairs up to the shorter list, a
\* later pair replacing an earlier one with the same key.
DictOfLists(keys, values) ==
    LET n == IF Len(keys) < Len(values) THEN Len(keys) ELSE Len(values)
    IN  [k \in {keys[i] : i \in 1..n} |->
            values[CHOOSE i \in 1..n :
                      keys[i] = k /\ \A j \in 1..n : keys[j] = k => j <= i]]

\* itertools.product(*lists), as the list of its tuples (last list fastest).
RECURSIVE Product(_)
RECURSIVE ConcatAll(_)
ConcatAll(ss) == IF ss = <<>> THEN <<>> ELSE Head(ss) \o ConcatAll(Tail(ss))
Product(lists) ==
    IF lists = <<>> THEN << <<>> >>
    ELSE LET rest == Product(Tail(lists))
             first == Head(lists)
         IN  ConcatAll(List([i \in 1..Len(first) |->
                               List([j \in 1..Len(rest) |-> <<first[i]>> \o rest[j]])]))

\* sorted(element_dict): the keys in string order.
KeyOrder(tc, element_dict) == SortedSet(DOMAIN element_dict)

\* subl_combination of get_endmembers_with_templates
SublCombination(tc, sc) ==
    LET element_dict == DictOfLists(tc, sc)
        keys == KeyOrder(tc, element_dict)
    IN  Product(List([i \in 1..Len(keys) |-> element_dict[keys[i]]]))

\* structure_tools.gen_replacement_dict(old_config, new_config) for one-sublattice
\* configurations [old_subl], [new_subl]
gen_replacement_dict(old_subl, new_subl) == DictOfLists(old_subl, new_subl)

\* structure_tools.substitute_configuration: replace_species renames every site
\* whose species is a key of the dict and keeps the site properties; scale_struct
\* changes the lattice only.
substitute_configuration(sites, old_subl, new_subl) ==
    LET rd == gen_replacement_dict(old_subl, new_subl)
    IN  List([s \in 1..Len(sites) |->
                 IF sites[s].element \in DOMAIN rd
                 THEN [sites[s] EXCEPT !.element = rd[sites[s].element]]
                 ELSE sites[s]])

\* Wyckoff letters used as sublattice labels
LabelNames == <<"a", "b", "c", "d", "e">>
Labels == {LabelNames[i] : i \in 1..MaxSubl}
CandidateLists == {<<"Fe">>, <<"Ni">>, <<"Fe", "Ni">>}
EquivalentSitesArgs == {NoneDict, SomeDict([x \in {"b"} |-> "a"])}

EndInit ==
    /\ wyckoff_site_list \in SeqsOf(Labels, 1, MaxSites)
    /\ subl_model_name = SortedSet(Range(wyckoff_site_list))
    /\ equivalent_sites \in EquivalentSitesArgs
    /\ sublattice_configuration \in
          [1..Len(TrueSublattices(equivalent_sites, subl_model_name)) -> CandidateLists]
    /\ template_structure = <<>>
    /\ template_configuration = <<>>
    /\ subl_combination = <<>>
    /\ endmembers = <<>>
    /\ end_pc = "templates"

\* The arguments of get_templates alone (no call of get_endmembers_with_templates
\* follows, so there are no candidate species).
TemplatesInit ==
    /\ wyckoff_site_list \in SeqsOf(Labels, 1, MaxSites)
    /\ subl_model_name = SortedSet(Range(wyckoff_site_list))
    /\ equivalent_sites \in EquivalentSitesArgs
    /\ sublattice_configuration = <<>>
    /\ template_structure = <<>>
    /\ template_configuration = <<>>
    /\ subl_combination = <<>>
    /\ endmembers = <<>>
    /\ end_pc = "templates"

EndIdle ==
    /\ wyckoff_site_list = <<>>
    /\ subl_model_name = <<>>
    /\ equivalent_sites = NoneDict
    /\ sublattice_configuration = <<>>
    /\ template_structure = <<>>
    /\ template_configuration = <<>>
    /\ subl_combination = <<>>
    /\ endmembers = <<>>
    /\ end_pc = "idle"

\* get_templates(structure, wyckoff_site_list, subl_model_name, equivalent_sites)
get_templates ==
    /\ end_pc = "templates"
    /\ template_structure' =
          TemplateSites(equivalent_sites, wyckoff_site_list, subl_model_name)
    /\ template_configuration' = TemplateConfiguration(equivalent_sites, subl_model_name)
    /\ end_pc' = "endmembers"
    /\ UNCHANGED <<wyckoff_site_list, subl_model_name, equivalent_sites,
                   sublattice_configuration, subl_combination, endmembers>>
    /\ UNCHANGED <<dbVars, multVars, dilVars, sqsVars, canonVars, infoVars, prlVars>>

\* get_endmembers_with_templates(template_structure, template_configuration,
\*                               sublattice_configuration)
get_endmembers_with_templates ==
    /\ end_pc = "endmembers"
    /\ LET combs == SublCombination(template_configuration, sublattice_configuration)
       IN  /\ subl_combination' = combs
           /\ endmembers' =
                 List([i \in 1..Len(combs) |->
                          substitute_configuration(template_structure,
                                                   template_configuration, combs[i])])
    /\ end_pc' = "done"
    /\ UNCHANGED <<wyckoff_site_list, subl_model_name, equivalent_sites,
                   sublattice_configuration, template_structure,
                   template_configuration>>
    /\ UNCHANGED <<dbVars, multVars, dilVars, sqsVars, canonVars, infoVars, prlVars>>


\* =========================================================================
\* dilute_structure_tools.py and Structure_Builder/dilute_structure_tools.py
\* =========================================================================

\* Structure.make_supercell: every site is followed by its images in the other
\* cells, so the n cells' copies of one site are adjacent in the site list.
MakeSupercell(sites, n) ==
    [s \in 1..(Len(sites) * n) |-> sites[((s - 1) \div n) + 1]]

\* structures = copy.deepcopy(endmembers), each made a supercell when
\* supercell_matrix is not None.
ExpandedStructures(ends, matrix) ==
    IF matrix = 0 THEN ends
    ELSE [e \in 1..Len(ends) |-> MakeSupercell(ends[e], matrix)]

\* sub_lattice_list = [i['properties']['sublattice_sites'] for i in dictstr['sites']]
SubLatticeList(sites) == [s \in 1..Len(sites) |-> sites[s].sublattice_sites]

\* num of dilute_structure_tools.py: the positions i != 0 whose label differs from
\* that of the site before.  Positions are list indices plus one.
NumRoot(sites) ==
    SelectSeq([s \in 1..Len(sites) |-> s],
              LAMBDA s : s # 1 /\ sites[s].sublattice_sites # sites[s - 1].sublattice_sites)

\* num of Structure_Builder/dilute_structure_tools.py: every position whose label
\* differs from that of the site before; for the first site sub_lattice_list[i-1]
\* is sub_lattice_list[-1], the label of the last site.
NumBuilder(sites) ==
    SelectSeq([s \in 1..Len(sites) |-> s],
              LAMBDA s : sites[s].sublattice_sites #
                         sites[IF s = 1 THEN Len(sites) ELSE s - 1].sublattice_sites)

\* num as the named copy of the module computes it
NumOf(copy, sites) == IF copy = "root" THEN NumRoot(sites) ELSE NumBuilder(sites)

\* A substitution that forgets to skip the species already on the site.
Substitutable_same(old_ele, j) == j # "fix"

\* if j != 'fix' and old_ele != j
Substitutable(old_ele, j) == j # "fix" /\ old_ele # j

\* The structures appended for site i of one structure: one per species j of
\* sublattice_dict[label of i] that passes the test, each with site i alone renamed.
DilutesAtSite(sites, i, sdict) ==
    LET element_dict == sdict[sites[i].sublattice_sites]
        old_ele == sites[i].element
        picked == SelectSeq(element_dict, LAMBDA j : Substitutable(old_ele, j))
    IN  [k \in 1..Len(picked) |-> [sites EXCEPT ![i].element = picked[k]]]

\* for i in num: ... for one structure
DilutesOfStructure(sites, num, sdict) ==
    ConcatAll([k \in 1..Len(num) |-> DilutesAtSite(sites, num[k], sdict)])

\* The first loop of dilute_substitution: dilute_strs
DiluteStrs(structures, copy, sdict) ==
    ConcatAll([e \in 1..Len(structures) |->
                  DilutesOfStructure(structures[e], NumOf(copy, structures[e]), sdict)])

\* The second loop reads sites i and i + 1 for every i of num, the num left by the
\* last structure of the first loop: IndexError when i is the last site.
ConfRaises(strs, num) ==
    \E d \in 1..Len(strs) : \E k \in 1..Len(num) : num[k] + 1 > Len(strs[d])

\* comb of one dilute structure: label -> <<species>> or <<first, second>>; a later
\* i of num with the same label replaces the earlier entry.
Comb(sites, num) ==
    LET val(i) == IF sites[i].element = sites[i + 1].element
                  THEN <<sites[i].element>>
                  ELSE <<sites[i].element, sites[i + 1].element>>
    IN  [l \in {sites[num[k]].sublattice_sites : k \in 1..Len(num)} |->
            val(num[CHOOSE k \in 1..Len(num) :
                        /\ sites[num[k]].sublattice_sites = l
                        /\ \A k2 \in 1..Len(num) :
                              sites[num[k2]].sublattice_sites = l => k2 <= k])]

DilLabels == {"a", "b"}
DilSpecies == {"Fe", "Ni"}
DilCandidates == {<<"Fe", "Ni">>, <<"Ni", "fix">>, <<"fix">>}

\* An endmember over the site labels: one species on every sublattice.
EndmemberSites(labels, f) ==
    [s \in 1..Len(labels) |-> [element |-> f[labels[s]], sublattice_sites |-> labels[s]]]

DilInit ==
    /\ \E labels \in SeqsOf(DilLabels, 1, MaxDilSites) :
          /\ dil_endmembers \in
                {es \in SeqsOf({EndmemberSites(labels, f) : f \in [Range(labels) -> DilSpecies]},
                               1, MaxEnd) :
                    \A i, j \in 1..Len(es) : i # j => es[i] # es[j]}
          /\ sublattice_dict \in [Range(labels) -> DilCandidates]
    /\ supercell_matrix \in {0, 2}
    /\ dilute_strs = <<>>
    /\ dilute_conf = <<>>
    /\ dil_copy = "none"
    /\ dil_pc = "call"

DilIdle ==
    /\ dil_endmembers = <<>>
    /\ sublattice_dict = <<>>
    /\ supercell_matrix = 0
    /\ dilute_strs = <<>>
    /\ dilute_conf = <<>>
    /\ dil_copy = "none"
    /\ dil_pc = "idle"

\* The body shared by the two copies, which differ in num only.
DiluteSubstitutionBody(copy) ==
    LET structures == ExpandedStructures(dil_endmembers, supercell_matrix)
        strs == DiluteStrs(structures, copy, sublattice_dict)
        num == NumOf(copy, structures[Len(structures)])
    IN  IF ConfRaises(strs, num)
        THEN /\ dil_pc' = "raise"
             /\ UNCHANGED <<dilute_strs, dilute_conf>>
        ELSE /\ dil_pc' = "done"
             /\ dilute_strs' = strs
             /\ dilute_conf' = [d \in 1..Len(strs) |-> Comb(strs[d], num)]

\* dilute_structure_tools.dilute_substitution(endmembers, sublattice_dict,
\*                                            supercell_matrix)
dilute_substitution ==
    /\ dil_pc = "call"
    /\ DiluteSubstitutionBody("root")
    /\ dil_copy' = "root"
    /\ UNCHANGED <<dil_endmembers, sublattice_dict, supercell_matrix>>
    /\ UNCHANGED <<dbVars, multVars, endVars, sqsVars, canonVars, infoVars, prlVars>>

\* Structure_Builder.dilute_structure_tools.dilute_substitution(...)
dilute_substitution_builder ==
    /\ dil_pc = "call"
    /\ DiluteSubstitutionBody("Structure_Builder")
    /\ dil_copy' = "Structure_Builder"
    /\ UNCHANGED <<dil_endmembers, sublattice_dict, supercell_matrix>>
    /\ UNCHANGED <<dbVars, multVars, endVars, sqsVars, canonVars, infoVars, prlVars>>


\* =========================================================================
\* sqs_tools.py
\* =========================================================================
Min(a, b) == IF a < b THEN a ELSE b

RECURSIVE Gcd(_, _)
Gcd(a, b) == IF b = 0 THEN a ELSE Gcd(b, a % b)

RECURSIVE GcdSeq(_)
GcdSeq(s) == IF s = <<>> THEN 0 ELSE Gcd(s[1], GcdSeq(Tail(s)))

\* AbstractSQS.sublattice_site_ratios: the amounts of composition.reduced_composition
\* (all amounts divided by their greatest common divisor), per abstract species.
SublatticeSiteRatios(sites) ==
    LET g == GcdSeq(ConcatAll(sites))
    IN  List([k \in 1..Len(sites) |->
                 List([j \in 1..Len(sites[k]) |-> sites[k][j] \div g])])

\* The species 'X' + subl_name + abstract_specie of the abstract structure; a
\* concrete species c is written <<c>>.
AbstractSpecie(subl_name, abstract_specie) == <<"X", subl_name, abstract_specie>>

\* A length check that lets a shorter concrete model through.
LengthMismatch_shorter(a, b) == Len(a) > Len(b)

\* len(subl_model) != len(self.sublattice_model)
LengthMismatch(a, b) == Len(a) # Len(b)

\* zip(abstract_subl, concrete_subl, subl_ratios) stops at the shortest list
\* (subl_ratios is as long as abstract_subl).
ZipLen(abstract_subl, concrete_subl) == Min(Len(abstract_subl), Len(concrete_subl))

\* The (sublattice, position) pairs the two nested zips visit, in order.
ZippedPairs(model, names, concrete) ==
    LET n == Min(Min(Len(model), Len(concrete)), Len(names))
    IN  ConcatAll([k \in 1..n |->
                     [j \in 1..ZipLen(model[k], concrete[k]) |-> <<k, j>>]])

\* replacement_dict after the loops; a later pair with the same key wins.
ReplacementDict(model, names, concrete) ==
    LET zp == ZippedPairs(model, names, concrete)
        key(i) == AbstractSpecie(names[zp[i][1]], model[zp[i][1]][zp[i][2]])
    IN  [sp \in {key(i) : i \in 1..Len(zp)} |->
            LET i == CHOOSE i \in 1..Len(zp) :
                        key(i) = sp /\ \A i2 \in 1..Len(zp) : key(i2) = sp => i2 <= i
            IN  concrete[zp[i][1]][zp[i][2]]]

\* self_copy.replace_species(replacement_dict): what every abstract species of the
\* structure has become (itself when the dict has no entry for it).
ReplaceSpecies(model, names, rd) ==
    [sp \in UNION {{AbstractSpecie(names[k], model[k][j]) : j \in 1..Len(model[k])} :
                      k \in 1..Len(model)} |->
        IF sp \in DOMAIN rd THEN <<rd[sp]>> ELSE sp]

\* An occupancy dict in which a later abstract species replaces the entry of its
\* concrete species instead of adding to it.
SublatticeOccupancyDict_overwrite(abstract_subl, concrete_subl, subl_ratios) ==
    LET m == ZipLen(abstract_subl, concrete_subl)
    IN  [c \in {concrete_subl[j] : j \in 1..m} |->
            <<subl_ratios[CHOOSE j \in 1..m :
                             /\ concrete_subl[j] = c
                             /\ \A j2 \in 1..m : concrete_subl[j2] = c => j2 <= j],
              SumSeq(subl_ratios)>>]

\* sublattice_occupancy_dict of one sublattice: concrete species -> the sum of
\* site_ratio / sublattice_ratio_sum over the abstract species mapped to it.  The
\* fraction is kept as <<numerator, denominator>> over the common denominator.
SublatticeOccupancyDict(abstract_subl, concrete_subl, subl_ratios) ==
    LET m == ZipLen(abstract_subl, concrete_subl)
    IN  [c \in {concrete_subl[j] : j \in 1..m} |->
            <<SumSeq([j \in 1..m |-> IF concrete_subl[j] = c THEN subl_ratios[j] ELSE 0]),
              SumSeq(subl_ratios)>>]

\* sorted(set(subl))
SortedSpecies(subl) == SortedSet(Range(subl))

\* AbstractSQS.get_concrete_sqs(subl_model, scale_volume): the error raised, or
\* the PRLStructure built.
ConcreteSqs(model, names, sites, concrete, scale) ==
    IF LengthMismatch(concrete, model)
    THEN [error |-> "ValueError"]
    ELSE
      LET ratios == SublatticeSiteRatios(sites)
          n == Min(Min(Len(model), Len(concrete)), Len(names))
          site_occupancies ==
              List([k \in 1..n |->
                       SublatticeOccupancyDict(model[k], concrete[k], ratios[k])])
          species == ReplaceSpecies(model, names, ReplacementDict(model, names, concrete))
          sorted_configuration == List([k \in 1..Len(concrete) |-> SortedSpecies(concrete[k])])
      IN  \* Element(component) fails on a species that is still abstract
          IF scale /\ \E sp \in DOMAIN species : species[sp] = sp
          THEN [error |-> "ValueError"]
          \* occupancies[specie] for a species that is in no occupancy dict
          ELSE IF \E k \in 1..n : \E c \in Range(sorted_configuration[k]) :
                      c \notin DOMAIN site_occupancies[k]
          THEN [error |-> "KeyError"]
          ELSE [error |-> "none",
                species |-> species,
                sublattice_configuration |-> sorted_configuration,
                sublattice_occupancies |->
                    List([k \in 1..n |->
                             List([i \in 1..Len(sorted_configuration[k]) |->
                                      site_occupancies[k][sorted_configuration[k][i]]])]),
                sublattice_site_ratios |->
                    List([k \in 1..Len(ratios) |-> SumSeq(ratios[k])])]

\* itertools.product(subl, repeat=len(abstract_subl)) for every sublattice, then
\* itertools.product of those: the concrete models in the order they are tried.
UniqueSublModels(model, candidates) ==
    Product(List([k \in 1..Min(Len(model), Len(candidates)) |->
                     Product(List([j \in 1..Len(model[k]) |-> candidates[k]]))]))

\* A comparison that looks at the configuration only.
ConfigOccupancy_config(sqs) == <<sqs.sublattice_configuration>>

\* proposed_config_occupancy
ConfigOccupancy(sqs) == <<sqs.sublattice_configuration, sqs.sublattice_occupancies>>

\* The loop of enumerate_sqs from model i on: unique_sqs, or the error of the first
\* get_concrete_sqs that raises.
RECURSIVE EnumerateFrom(_, _, _, _, _, _, _)
EnumerateFrom(models, i, unique_sqs, model, names, sites, scale) ==
    IF i > Len(models) THEN [error |-> "none", unique_sqs |-> unique_sqs]
    ELSE LET proposed_sqs == ConcreteSqs(model, names, sites, models[i], scale)
         IN  IF proposed_sqs.error # "none" THEN [error |-> proposed_sqs.error]
             ELSE IF \E u \in 1..Len(unique_sqs) :
                        ConfigOccupancy(unique_sqs[u]) = ConfigOccupancy(proposed_sqs)
             THEN EnumerateFrom(models, i + 1, unique_sqs, model, names, sites, scale)
             ELSE EnumerateFrom(models, i + 1, Append(unique_sqs, proposed_sqs),
                                model, names, sites, scale)

\* enumerate_sqs(structure, subl_model, scale_volume)
EnumerateSqs(model, names, sites, candidates, scale) ==
    IF LengthMismatch(candidates, model)
    THEN [error |-> "ValueError"]
    ELSE EnumerateFrom(UniqueSublModels(model, candidates), 1, <<>>,
                       model, names, sites, scale)

\* Abstract structures: sublattices named a, b, ... whose abstract species are
\* a, b, ... in turn, every species on 1..MaxCount sites.
AbstractShapes ==
    {sh \in SeqsOf(1..MaxAbsTotal, 1, MaxAbsTotal) : SumSeq(sh) <= MaxAbsTotal}
ConcreteSubls == {<<"Fe", "Ni">>, <<"Ni", "Fe", "Fe">>}

SqsInit ==
    /\ \E sh \in AbstractShapes :
          /\ sublattice_model = [k \in 1..Len(sh) |-> [j \in 1..sh[k] |-> LabelNames[j]]]
          /\ sublattice_names = [k \in 1..Len(sh) |-> LabelNames[k]]
          /\ \E c \in [1..SumSeq(sh) -> 1..MaxCount] :
                abs_sites = [k \in 1..Len(sh) |->
                                [j \in 1..sh[k] |->
                                    c[SumSeq(SubSeq(sh, 1, k - 1)) + j]]]
          /\ subl_model \in SeqsOf(ConcreteSubls,
                                   IF Len(sh) > 1 THEN Len(sh) - 1 ELSE 0, Len(sh) + 1)
    /\ scale_volume \in BOOLEAN
    /\ sqs_result = <<>>
    /\ sqs_error = "none"
    /\ sqs_call = "none"
    /\ sqs_pc = "call"

ConcreteSpecies == {"Fe", "Ni"}

\* An abstract structure and a subl_model of its shape: one concrete species for
\* every abstract species.
SameShapeInit ==
    /\ \E sh \in AbstractShapes :
          /\ sublattice_model = [k \in 1..Len(sh) |-> [j \in 1..sh[k] |-> LabelNames[j]]]
          /\ sublattice_names = [k \in 1..Len(sh) |-> LabelNames[k]]
          /\ \E c \in [1..SumSeq(sh) -> 1..MaxCount] :
                abs_sites = [k \in 1..Len(sh) |->
                                [j \in 1..sh[k] |->
                                    c[SumSeq(SubSeq(sh, 1, k - 1)) + j]]]
          /\ \E c \in [1..SumSeq(sh) -> ConcreteSpecies] :
                subl_model = [k \in 1..Len(sh) |->
                                 [j \in 1..sh[k] |->
                                     c[SumSeq(SubSeq(sh, 1, k - 1)) + j]]]
    /\ scale_volume \in BOOLEAN
    /\ sqs_result = <<>>
    /\ sqs_error = "none"
    /\ sqs_call = "none"
    /\ sqs_pc = "call"

SqsIdle ==
    /\ sublattice_model = <<>>
    /\ sublattice_names = <<>>
    /\ abs_sites = <<>>
    /\ subl_model = <<>>
    /\ scale_volume = FALSE
    /\ sqs_result = <<>>
    /\ sqs_error = "none"
    /\ sqs_call = "none"
    /\ sqs_pc = "idle"

\* structure.get_concrete_sqs(subl_model, scale_volume)
get_concrete_sqs ==
    /\ sqs_pc = "call"
    /\ LET r == ConcreteSqs(sublattice_model, sublattice_names, abs_sites,
                            subl_model, scale_volume)
       IN  /\ sqs_error' = r.error
           /\ sqs_pc' = IF r.error = "none" THEN "done" ELSE "raise"
           /\ sqs_result' = IF r.error = "none" THEN <<r>> ELSE <<>>
    /\ sqs_call' = "get_concrete_sqs"
    /\ UNCHANGED <<sublattice_model, sublattice_names, abs_sites, subl_model,
                   scale_volume>>
    /\ UNCHANGED <<dbVars, multVars, endVars, dilVars, canonVars, infoVars, prlVars>>

\* enumerate_sqs(structure, subl_model, scale_volume)
enumerate_sqs ==
    /\ sqs_pc = "call"
    /\ LET r == EnumerateSqs(sublattice_model, sublattice_names, abs_sites,
                             subl_model, scale_volume)
       IN  /\ sqs_error' = r.error
           /\ sqs_pc' = IF r.error = "none" THEN "done" ELSE "raise"
           /\ sqs_result' = IF r.error = "none" THEN r.unique_sqs ELSE <<>>
    /\ sqs_call' = "enumerate_sqs"
    /\ UNCHANGED <<sublattice_model, sublattice_names, abs_sites, subl_model,
                   scale_volume>>
    /\ UNCHANGED <<dbVars, multVars, endVars, dilVars, canonVars, infoVars, prlVars>>


\* =========================================================================
\* structure_tools.py: canonicalize_config
\* =========================================================================

\* sorted(pairs, key=lambda pair: pair[0]) one element at a time: the new pair goes
\* behind every pair whose key is not greater (the sort is stable).
InsertByKey(sorted_pairs, pair) ==
    LET before == SelectSeq(sorted_pairs, LAMBDA q : ~StrLess(pair[1], q[1]))
        after == SelectSeq(sorted_pairs, LAMBDA q : StrLess(pair[1], q[1]))
    IN  before \o <<pair>> \o after

RECURSIVE SortedByKey(_)
SortedByKey(pairs) ==
    IF pairs = <<>> THEN <<>>
    ELSE InsertByKey(SortedByKey(SubSeq(pairs, 1, Len(pairs) - 1)), pairs[Len(pairs)])

\* A version that leaves the occupancies in the order they came.
sort_x_by_y_unsorted(x, y) == SubSeq(x, 1, Min(Len(x), Len(y)))

\* sort_x_by_y(x, y): [xx for _, xx in sorted(zip(y, x), key=lambda pair: pair[0])]
sort_x_by_y(x, y) ==
    LET zipped == List([i \in 1..Min(Len(x), Len(y)) |-> <<y[i], x[i]>>])
        ordered == SortedByKey(zipped)
    IN  List([i \in 1..Len(ordered) |-> ordered[i][2]])

\* sorted(config) for a list of species (duplicates kept)
SortedList(config) ==
    LET ordered == SortedByKey(List([i \in 1..Len(config) |-> <<config[i], config[i]>>]))
    IN  List([i \in 1..Len(ordered) |-> ordered[i][1]])

\* canonicalize_config(configuration, occupancies)
canonicalize_config(config, occ) ==
    LET new_occupancies ==
            List([k \in 1..Min(Len(occ), Len(config)) |-> sort_x_by_y(occ[k], config[k])])
        new_configuration == List([k \in 1..Len(config) |-> SortedList(config[k])])
    IN  <<new_configuration, new_occupancies>>

Species == {"Fe", "Ni"}

CanonInit ==
    /\ configuration \in SeqsOf(SeqsOf(Species, 1, MaxCfgLen), 1, MaxCfgSubl)
    /\ occupancies \in SeqsOf(SeqsOf(1..MaxOcc, 1, MaxCfgLen), 1, MaxCfgSubl)
    /\ Len(occupancies) = Len(configuration)
    /\ \A k \in 1..Len(configuration) : Len(occupancies[k]) = Len(configuration[k])
    /\ canonical = <<>>
    /\ recanonical = <<>>
    /\ canon_pc = "call"

CanonIdle ==
    /\ configuration = <<>>
    /\ occupancies = <<>>
    /\ canonical = <<>>
    /\ recanonical = <<>>
    /\ canon_pc = "idle"

\* config, occupation = canonicalize_config(config, occupation)
CallCanonicalize ==
    /\ canon_pc = "call"
    /\ canonical' = canonicalize_config(configuration, occupancies)
    /\ canon_pc' = "done"
    /\ UNCHANGED <<configuration, occupancies, recanonical>>
    /\ UNCHANGED <<dbVars, multVars, endVars, dilVars, sqsVars, infoVars, prlVars>>

\* canonicalize_config applied to its own output
CallCanonicalizeAgain ==
    /\ canon_pc = "done"
    /\ recanonical' = canonicalize_config(canonical[1], canonical[2])
    /\ canon_pc' = "again"
    /\ UNCHANGED <<configuration, occupancies, canonical>>
    /\ UNCHANGED <<dbVars, multVars, endVars, dilVars, sqsVars, infoVars, prlVars>>


\* =========================================================================
\* endmember_tools.py: get_sublattice_information
\* =========================================================================

\* sorted(set(l)) for a list of integers
RECURSIVE SortedInts(_)
SortedInts(S) ==
    IF S = {} THEN <<>>
    ELSE LET m == CHOOSE x \in S : \A y \in S : x <= y
         IN  <<m>> \o SortedInts(S \ {m})

\* A naming that gives every class its bare Wyckoff letter.
ReplaceList_letter(sub_wyckoff_name) == sub_wyckoff_name

\* The loop building replace_list: a letter already in replace_list is followed by
\* the number of times it has occurred in original_list so far.
RECURSIVE ReplaceList(_)
ReplaceList(sub_wyckoff_name) ==
    IF sub_wyckoff_name = <<>> THEN <<>>
    ELSE LET n == Len(sub_wyckoff_name)
             replace_list == ReplaceList(SubSeq(sub_wyckoff_name, 1, n - 1))
             i == sub_wyckoff_name[n]
             count_subl == Cardinality({p \in 1..n : sub_wyckoff_name[p] = i})
             j == IF i \in Range(replace_list) THEN i \o ToString(count_subl) ELSE i
         IN  replace_list \o <<j>>

\* get_sublattice_information after the symmetry analysis: the three returned lists
SublatticeInformation(wyck, eq, use) ==
    LET num_eq_atom == SortedInts(Range(eq))
        sub_wyckoff_name == List([k \in 1..Len(num_eq_atom) |-> wyck[num_eq_atom[k] + 1]])
        replace_list == ReplaceList(sub_wyckoff_name)
        replace_dict == DictOfLists(num_eq_atom, replace_list)
        sites == IF use THEN List([s \in 1..Len(eq) |-> replace_dict[eq[s]]]) ELSE wyck
        names == SortedSet(Range(sites))
    IN  [true_sublattice_sites |-> sites,
         subl_model_name |-> names,
         sublattice_site_ratio |->
             List([k \in 1..Len(names) |->
                      Cardinality({s \in 1..Len(sites) : sites[s] = names[k]})])]

WyckoffLetters == {"a", "b"}

\* 'equivalent_atoms' names every site's class by the first site of the class, and
\* the sites of one class lie on one Wyckoff position.
SymmetryDatasets ==
    {d \in UNION {[wyckoffs : [1..n -> WyckoffLetters],
                   equivalent_atoms : [1..n -> 0..(n - 1)]] : n \in 1..MaxInfoSites} :
        \A s \in 1..Len(d.equivalent_atoms) :
            /\ d.equivalent_atoms[s] <= s - 1
            /\ d.equivalent_atoms[d.equivalent_atoms[s] + 1] = d.equivalent_atoms[s]
            /\ d.wyckoffs[d.equivalent_atoms[s] + 1] = d.wyckoffs[s]}

InfoInit ==
    /\ \E d \in SymmetryDatasets :
          /\ wyckoff_sites = d.wyckoffs
          /\ equal_atom = d.equivalent_atoms
    /\ use_equivalent_atom \in BOOLEAN
    /\ true_sublattice_sites = <<>>
    /\ info_subl_model_name = <<>>
    /\ sublattice_site_ratio = <<>>
    /\ info_pc = "call"

InfoIdle ==
    /\ wyckoff_sites = <<>>
    /\ equal_atom = <<>>
    /\ use_equivalent_atom = FALSE
    /\ true_sublattice_sites = <<>>
    /\ info_subl_model_name = <<>>
    /\ sublattice_site_ratio = <<>>
    /\ info_pc = "idle"

\* get_sublattice_information(structure, use_equivalent_atom)
get_sublattice_information ==
    /\ info_pc = "call"
    /\ LET r == SublatticeInformation(wyckoff_sites, equal_atom, use_equivalent_atom)
       IN  /\ true_sublattice_sites' = r.true_sublattice_sites
           /\ info_subl_model_name' = r.subl_model_name
           /\ sublattice_site_ratio' = r.sublattice_site_ratio
    /\ info_pc' = "done"
    /\ UNCHANGED <<wyckoff_sites, equal_atom, use_equivalent_atom>>
    /\ UNCHANGED <<dbVars, multVars, endVars, dilVars, sqsVars, canonVars, prlVars>>


\* =========================================================================
\* prl_structure.py: PRLStructure.reindex
\* =========================================================================

\* list(range(n))
RangeList(n) == [i \in 1..n |-> i - 1]

\* sorted(l) for a list of integers (repeated values kept)
RECURSIVE SortedIntList(_)
SortedIntList(l) ==
    IF l = <<>> THEN <<>>
    ELSE LET m == CHOOSE p \in 1..Len(l) : \A q \in 1..Len(l) : l[p] <= l[q]
         IN  <<l[m]>> \o SortedIntList(SubSeq(l, 1, m - 1) \o SubSeq(l, m + 1, Len(l)))

\* [l[i] for i in new_indices], for indices that passed the check
Reindexed(indices, l) == List([j \in 1..Len(indices) |-> l[indices[j] + 1]])

\* A re-indexing that leaves the site ratios in their old order.
reindex_sublattice_ratios_kept(indices, model, model_occupancies, model_site_ratios) ==
    IF SortedIntList(indices) # RangeList(Len(model))
    THEN [error |-> "ValueError"]
    ELSE [error |-> "none",
          new_subl_model |-> Reindexed(indices, model),
          new_subl_occupancies |-> Reindexed(indices, model_occupancies),
          new_subl_site_ratios |-> model_site_ratios]

\* PRLStructure.reindex_sublattice: the raise, or the three new lists
reindex_sublattice(indices, model, model_occupancies, model_site_ratios) ==
    IF SortedIntList(indices) # RangeList(Len(model))
    THEN [error |-> "ValueError"]
    ELSE [error |-> "none",
          new_subl_model |-> Reindexed(indices, model),
          new_subl_occupancies |-> Reindexed(indices, model_occupancies),
          new_subl_site_ratios |-> Reindexed(indices, model_site_ratios)]

\* The sublattices a PRLStructure is built from: configuration, occupancies (in
\* quarters) and site ratio.
PrlSublattices ==
    {[configuration |-> <<"Fe">>, occupancies |-> <<4>>, site_ratio |-> 1],
     [configuration |-> <<"Fe", "Ni">>, occupancies |-> <<1, 3>>, site_ratio |-> 3],
     [configuration |-> <<"Fe", "Ni">>, occupancies |-> <<3, 1>>, site_ratio |-> 1]}

\* The lists a caller may pass as new_indices for a structure of n sublattices:
\* permutations, and lists that are too short, too long, repeat an index or name
\* an index out of range (n, or the negative index -1).
IndexLists(n) == SeqsOf((-1)..n, 0, n + 1)

\* PRLStructure(..., sublattice_configuration=, sublattice_occupancies=,
\*              sublattice_site_ratios=)
PrlInit ==
    /\ \E subls \in SeqsOf(PrlSublattices, 1, MaxPrlSubl) :
          /\ prl_configuration = [k \in 1..Len(subls) |-> subls[k].configuration]
          /\ prl_occupancies = [k \in 1..Len(subls) |-> subls[k].occupancies]
          /\ prl_site_ratios = [k \in 1..Len(subls) |-> subls[k].site_ratio]
          /\ prl_created = subls
    /\ new_indices = <<>>
    /\ prl_outcome = "none"
    /\ prl_pc = "ready"

PrlIdle ==
    /\ prl_configuration = <<>>
    /\ prl_occupancies = <<>>
    /\ prl_site_ratios = <<>>
    /\ prl_created = <<>>
    /\ new_indices = <<>>
    /\ prl_outcome = "none"
    /\ prl_pc = "idle"

\* A caller calls struct.reindex(new_indices).
CallReindex ==
    /\ prl_pc = "ready"
    /\ new_indices' \in IndexLists(Len(prl_configuration))
    /\ prl_pc' = "reindex"
    /\ UNCHANGED <<prl_configuration, prl_occupancies, prl_site_ratios, prl_created,
                   prl_outcome>>
    /\ UNCHANGED <<dbVars, multVars, endVars, dilVars, sqsVars, canonVars, infoVars>>

\* PRLStructure.reindex(new_indices): the three fields are assigned together from
\* the tuple reindex_sublattice returns; when it raises nothing is assigned.
reindex ==
    /\ prl_pc = "reindex"
    /\ LET r == reindex_sublattice(new_indices, prl_configuration, prl_occupancies,
                                   prl_site_ratios)
       IN  IF r.error = "ValueError"
           THEN /\ prl_outcome' = "ValueError"
                /\ UNCHANGED <<prl_configuration, prl_occupancies, prl_site_ratios>>
           ELSE /\ prl_outcome' = "returned"
                /\ prl_configuration' = r.new_subl_model
                /\ prl_occupancies' = r.new_subl_occupancies
                /\ prl_site_ratios' = r.new_subl_site_ratios
    /\ new_indices' = <<>>
    /\ prl_pc' = "ready"
    /\ UNCHANGED prl_created
    /\ UNCHANGED <<dbVars, multVars, endVars, dilVars, sqsVars, canonVars, infoVars>>

\* =========================================================================
\* Specifications
\* =========================================================================
InitDb == DbInit /\ MultIdle /\ EndIdle /\ DilIdle /\ SqsIdle /\ CanonIdle /\ InfoIdle /\ PrlIdle
SpecDb == InitDb /\ [][get_structures_from_database]_vars

InitMult == MultInit /\ DbIdle /\ EndIdle /\ DilIdle /\ SqsIdle /\ CanonIdle /\ InfoIdle /\ PrlIdle
SpecMult == InitMult /\ [][CallListsAreMultiple]_vars

InitEnd == EndInit /\ DbIdle /\ MultIdle /\ DilIdle /\ SqsIdle /\ CanonIdle /\ InfoIdle /\ PrlIdle
NextEnd == get_templates \/ get_endmembers_with_templates
SpecEnd == InitEnd /\ [][NextEnd]_vars

InitTemplates ==
    TemplatesInit /\ DbIdle /\ MultIdle /\ DilIdle /\ SqsIdle /\ CanonIdle /\ InfoIdle
        /\ PrlIdle
SpecTemplates == InitTemplates /\ [][get_templates]_vars

InitDil == DilInit /\ DbIdle /\ MultIdle /\ EndIdle /\ SqsIdle /\ CanonIdle /\ InfoIdle /\ PrlIdle
NextDil == dilute_substitution \/ dilute_substitution_builder
SpecDil == InitDil /\ [][NextDil]_vars

InitSqs == SqsInit /\ DbIdle /\ MultIdle /\ EndIdle /\ DilIdle /\ CanonIdle /\ InfoIdle /\ PrlIdle
NextSqs == get_concrete_sqs \/ enumerate_sqs
SpecSqs == InitSqs /\ [][NextSqs]_vars

InitConcrete ==
    SameShapeInit /\ DbIdle /\ MultIdle /\ EndIdle /\ DilIdle /\ CanonIdle /\ InfoIdle
        /\ PrlIdle
SpecConcrete == InitConcrete /\ [][get_concrete_sqs]_vars

InitCanon == CanonInit /\ DbIdle /\ MultIdle /\ EndIdle /\ DilIdle /\ SqsIdle /\ InfoIdle /\ PrlIdle
NextCanon == CallCanonicalize \/ CallCanonicalizeAgain
SpecCanon == InitCanon /\ [][NextCanon]_vars

InitInfo ==
    InfoInit /\ DbIdle /\ MultIdle /\ EndIdle /\ DilIdle /\ SqsIdle /\ CanonIdle
        /\ PrlIdle
SpecInfo == InitInfo /\ [][get_sublattice_information]_vars

InitPrl ==
    PrlInit /\ DbIdle /\ MultIdle /\ EndIdle /\ DilIdle /\ SqsIdle /\ CanonIdle
        /\ InfoIdle
NextPrl == CallReindex \/ reindex
SpecPrl == InitPrl /\ [][NextPrl]_vars

\* =========================================================================
\* Claims
\* =========================================================================

\* ---- C1
\* What the claim calls a matching record: same prototype, and the vector of
\* sublattice sums v has the length of subl_site_ratios and v = k * ratios or
\* ratios = k * v elementwise for one positive integer k.
ClaimMatch(r) ==
    LET v == SublSums(r.sublattice_site_ratios)
        q == subl_site_ratios
    IN  /\ r.prototype = prototype
        /\ Len(v) = Len(q)
        /\ \E k \in 1..(MaxRatio + 1) :
              \/ \A i \in 1..Len(v) : v[i] = k * q[i]
              \/ \A i \in 1..Len(v) : q[i] = k * v[i]

\* C1: get_structures_from_database returns exactly the records of db that match
\* (prototype equal, sublattice sums an integer multiple of subl_site_ratios or the
\* reverse), in table order: none that does not match, none omitted.  Vectors are
\* non-empty lists of positive integers.
C1_ExactlyTheMatches ==
    db_pc \in {"done", "raise"} =>
        /\ db_pc = "done"
        /\ results = SelectSeq(db, ClaimMatch)

\* C1 witness: a search returned a record whose sums are a proper multiple of the
\* query the reverse way round (the query is k times the record, k > 1).
C1_Witness ==
    /\ db_pc = "done"
    /\ Len(results) >= 1
    /\ \E i \in 1..Len(results) :
          LET v == SublSums(results[i].sublattice_site_ratios)
          IN  \A j \in 1..Len(v) : subl_site_ratios[j] = 2 * v[j]

\* ---- C2
\* C2: lists_are_multiple is symmetric on lists of non-negative integers: both
\* orders of the arguments give the same outcome and neither raises.
C2_Symmetric ==
    mult_pc = "done" =>
        /\ out12 = out21
        /\ out12 # "raise"
        /\ out21 # "raise"

\* ---- C3
\* C3: in every returned endmember, every site whose template element is
\* template_configuration[k] carries the species subl_combination[.][k], and that
\* species is a candidate of sublattice k (a member of sublattice_configuration[k]).
C3_SpeciesFromOwnSublattice ==
    end_pc = "done" =>
        \A e \in 1..Len(endmembers) :
            \A k \in 1..Len(template_configuration) :
                \A s \in 1..Len(template_structure) :
                    template_structure[s].element = template_configuration[k] =>
                        /\ endmembers[e][s].element = subl_combination[e][k]
                        /\ endmembers[e][s].element \in Range(sublattice_configuration[k])

\* ---- C4
\* The Cartesian product of the candidate lists, as a set of tuples.
CartesianProduct(sc) ==
    {t \in SeqsOf(UNION {Range(sc[k]) : k \in 1..Len(sc)}, Len(sc), Len(sc)) :
        \A k \in 1..Len(sc) : t[k] \in Range(sc[k])}

RECURSIVE ProductOfLengths(_)
ProductOfLengths(sc) ==
    IF sc = <<>> THEN 1 ELSE Len(Head(sc)) * ProductOfLengths(Tail(sc))

\* C4: subl_combination holds every tuple of the Cartesian product of the candidate
\* lists exactly once, its length is the product of their lengths, and endmembers
\* has the same length with its i-th structure built from subl_combination[i].
C4_CartesianProductOnce ==
    end_pc = "done" =>
        /\ Len(subl_combination) = ProductOfLengths(sublattice_configuration)
        /\ \A t \in CartesianProduct(sublattice_configuration) :
              Cardinality({i \in 1..Len(subl_combination) : subl_combination[i] = t}) = 1
        /\ Len(endmembers) = Len(subl_combination)
        /\ \A i \in 1..Len(endmembers) :
              endmembers[i] = substitute_configuration(template_structure,
                                  template_configuration, subl_combination[i])

\* ---- C5
\* The sites of every sublattice are adjacent in the site list.
Contiguous(sites) ==
    \A i, j, k \in 1..Len(sites) :
        (i < j /\ j < k /\ sites[i].sublattice_sites = sites[k].sublattice_sites)
            => sites[j].sublattice_sites = sites[i].sublattice_sites

\* C5: for every (expanded) endmember, every sublattice label L in it (the first
\* site's included) and every species e of sublattice_dict[L] other than 'fix' and
\* the host species on L, dilute_strs holds exactly one structure that is the
\* endmember with e on one site of L.
C5_EverySublatticeCovered ==
    (dil_pc \in {"done", "raise"}
        /\ \A e \in 1..Len(dil_endmembers) : Contiguous(dil_endmembers[e])) =>
      /\ dil_pc = "done"
      /\ LET structures == ExpandedStructures(dil_endmembers, supercell_matrix)
         IN  \A e \in 1..Len(structures) :
               \A s \in 1..Len(structures[e]) :
                 LET L == structures[e][s].sublattice_sites
                     host == structures[e][s].element
                 IN  \A x \in Range(sublattice_dict[L]) \ {"fix", host} :
                       Cardinality(
                         {d \in 1..Len(dilute_strs) :
                            \E t \in 1..Len(structures[e]) :
                              /\ structures[e][t].sublattice_sites = L
                              /\ dilute_strs[d] = [structures[e] EXCEPT ![t].element = x]})
                       = 1

\* ---- C6
\* C6: every returned dilute structure is one (expanded) endmember with exactly one
\* site renamed; the new species is listed in sublattice_dict for that site's label,
\* is not 'fix' and is not the species the endmember has there.
C6_SingleSitePerturbation ==
    dil_pc = "done" =>
      LET structures == ExpandedStructures(dil_endmembers, supercell_matrix)
      IN  \A d \in 1..Len(dilute_strs) :
            \E e \in 1..Len(structures) :
              /\ Len(dilute_strs[d]) = Len(structures[e])
              /\ \E s \in 1..Len(structures[e]) :
                   /\ \A t \in 1..Len(structures[e]) :
                         t # s => dilute_strs[d][t] = structures[e][t]
                   /\ dilute_strs[d][s].sublattice_sites = structures[e][s].sublattice_sites
                   /\ dilute_strs[d][s].element # structures[e][s].element
                   /\ dilute_strs[d][s].element # "fix"
                   /\ dilute_strs[d][s].element \in
                         Range(sublattice_dict[structures[e][s].sublattice_sites])

\* C6 witness: a call on two endmembers and a supercell returned a structure that is
\* an endmember with Fe replaced by Ni on one site of a sublattice listed as
\* ['Ni', 'fix'].
C6_Witness ==
    /\ dil_pc = "done"
    /\ Len(dil_endmembers) >= 2
    /\ supercell_matrix # 0
    /\ LET structures == ExpandedStructures(dil_endmembers, supercell_matrix)
       IN  \E d \in 1..Len(dilute_strs) : \E e \in 1..Len(structures) :
             \E s \in 1..Len(structures[e]) :
               /\ sublattice_dict[structures[e][s].sublattice_sites] = <<"Ni", "fix">>
               /\ structures[e][s].element = "Fe"
               /\ dilute_strs[d] = [structures[e] EXCEPT ![s].element = "Ni"]

\* ---- C7
\* C7: a call of get_concrete_sqs or enumerate_sqs whose subl_model has not as many
\* sublattices as the abstract sublattice model raises ValueError, returns no
\* structure and leaves the abstract structure as it was.
C7_LengthMismatchRaises ==
    [][(sqs_pc = "call" /\ Len(subl_model) # Len(sublattice_model)) =>
          /\ sqs_pc' = "raise"
          /\ sqs_error' = "ValueError"
          /\ sqs_result' = <<>>
          /\ sublattice_model' = sublattice_model
          /\ sublattice_names' = sublattice_names
          /\ abs_sites' = abs_sites]_vars

\* C7 witness: get_concrete_sqs has raised ValueError on a subl_model with fewer
\* sublattices than the abstract model and scale_volume off.
C7_Witness ==
    /\ sqs_call = "get_concrete_sqs"
    /\ sqs_pc = "raise"
    /\ sqs_error = "ValueError"
    /\ ~scale_volume
    /\ Len(subl_model) < Len(sublattice_model)

\* ---- C8
\* C8: with the right number of sublattices, a subl_model in which some sublattice
\* lists a different number of species than the abstract sublattice makes
\* get_concrete_sqs raise an error instead of returning a structure.
C8_InnerMismatchRaises ==
    (/\ sqs_call = "get_concrete_sqs"
     /\ sqs_pc \in {"done", "raise"}
     /\ Len(subl_model) = Len(sublattice_model)
     /\ \E k \in 1..Len(subl_model) : Len(subl_model[k]) # Len(sublattice_model[k]))
        => sqs_pc = "raise"

\* ---- C9
\* The pair (sublattice_configuration, sublattice_occupancies) of a structure.
C9_Pair(sqs) == <<sqs.sublattice_configuration, sqs.sublattice_occupancies>>

\* Every assignment of a concrete species of subl_model[k] to each abstract species
\* of sublattice k, for the sublattices k..n.
RECURSIVE C9_Assignments(_)
C9_Assignments(k) ==
    IF k > Len(sublattice_model) THEN { <<>> }
    ELSE {<<f>> \o rest :
             f \in [1..Len(sublattice_model[k]) -> Range(subl_model[k])],
             rest \in C9_Assignments(k + 1)}

C9_Concrete(m) ==
    ConcreteSqs(sublattice_model, sublattice_names, abs_sites, m, scale_volume)

\* C9: enumerate_sqs returns no two structures with the same pair, and the pair of
\* every assignment's concrete SQS is the pair of exactly one returned structure,
\* which is the concrete SQS of the first model enumerated with that pair.
C9_DedupComplete ==
    (sqs_call = "enumerate_sqs" /\ sqs_pc \in {"done", "raise"}
        /\ Len(subl_model) = Len(sublattice_model)) =>
      /\ sqs_pc = "done"
      /\ \A i, j \in 1..Len(sqs_result) :
            i # j => C9_Pair(sqs_result[i]) # C9_Pair(sqs_result[j])
      /\ LET models == UniqueSublModels(sublattice_model, subl_model)
             concrete == List([i \in 1..Len(models) |-> C9_Concrete(models[i])])
             pairs == List([i \in 1..Len(models) |-> C9_Pair(concrete[i])])
             returned == List([i \in 1..Len(sqs_result) |-> C9_Pair(sqs_result[i])])
         IN  \* the models enumerated are the assignments, all of them
             /\ {models[i] : i \in 1..Len(models)} = C9_Assignments(1)
             /\ \A a \in 1..Len(models) :
                  LET hits == {i \in 1..Len(returned) : returned[i] = pairs[a]}
                      first == CHOOSE i \in 1..a :
                                  /\ pairs[i] = pairs[a]
                                  /\ \A i2 \in 1..(i - 1) : pairs[i2] # pairs[a]
                  IN  /\ Cardinality(hits) = 1
                      /\ \A i \in hits : sqs_result[i] = concrete[first]

\* C9 witness: enumerate_sqs returned fewer structures than there are assignments
\* (some were dropped as duplicates) and more than one.
C9_Witness ==
    /\ sqs_call = "enumerate_sqs"
    /\ sqs_pc = "done"
    /\ Len(sqs_result) > 1
    /\ Len(sqs_result) < Cardinality(C9_Assignments(1))
    /\ \E k \in 1..Len(abs_sites) : \E j \in 1..Len(abs_sites[k]) : abs_sites[k][j] > 1

\* ---- C10
\* How often the pair (species, occupancy) occurs in a sublattice.
C10_Count(config_k, occ_k, sp, o) ==
    Cardinality({i \in 1..Len(config_k) : config_k[i] = sp /\ occ_k[i] = o})

\* C10: canonicalize_config returns every sublattice's species in sorted order with
\* the occupancies permuted alike (the lists keep their lengths and every (species,
\* occupancy) pair of the input occurs in the output as often as in the input, so
\* per sublattice the multiset of pairs is unchanged), and applied to its own output
\* it returns that output.
C10_Canonical ==
    /\ canon_pc \in {"done", "again"} =>
          /\ Len(canonical[1]) = Len(configuration)
          /\ Len(canonical[2]) = Len(occupancies)
          /\ \A k \in 1..Len(configuration) :
                /\ Len(canonical[1][k]) = Len(configuration[k])
                /\ Len(canonical[2][k]) = Len(occupancies[k])
                /\ \A i \in 1..(Len(canonical[1][k]) - 1) :
                      ~StrLess(canonical[1][k][i + 1], canonical[1][k][i])
                /\ \A i \in 1..Len(configuration[k]) :
                      C10_Count(canonical[1][k], canonical[2][k],
                                configuration[k][i], occupancies[k][i]) =
                          C10_Count(configuration[k], occupancies[k],
                                    configuration[k][i], occupancies[k][i])
    /\ canon_pc = "again" => recanonical = canonical

\* C10 witness: the call reordered a sublattice whose species were out of order and
\* whose occupancies differ, and the second call has been made.
C10_Witness ==
    /\ canon_pc = "again"
    /\ \E k \in 1..Len(configuration) :
          /\ Len(configuration[k]) >= 2
          /\ StrLess(configuration[k][2], configuration[k][1])
          /\ occupancies[k][1] # occupancies[k][2]
          /\ canonical[1][k] # configuration[k]

\* ---- C11
\* C11: with use_equivalent_atom=True two sites get the same sublattice name exactly
\* when they are in the same equivalent-atom class; subl_model_name lists each name
\* once, as many names as classes; sublattice_site_ratio[i] is the number of sites of
\* the class named subl_model_name[i]; the ratios sum to the number of sites.
C11_NamesAreClasses ==
    (info_pc = "done" /\ use_equivalent_atom) =>
        LET n == Len(equal_atom)
            m == Len(info_subl_model_name)
        IN  /\ Len(true_sublattice_sites) = n
            /\ \A s, t \in 1..n :
                  (true_sublattice_sites[s] = true_sublattice_sites[t])
                      <=> (equal_atom[s] = equal_atom[t])
            /\ m = Cardinality(Range(equal_atom))
            /\ \A i, k \in 1..m :
                  info_subl_model_name[i] = info_subl_model_name[k] => i = k
            /\ Len(sublattice_site_ratio) = m
            /\ \A i \in 1..m :
                  \E s \in 1..n :
                      /\ true_sublattice_sites[s] = info_subl_model_name[i]
                      /\ sublattice_site_ratio[i] =
                             Cardinality({t \in 1..n : equal_atom[t] = equal_atom[s]})
            /\ SumSeq(sublattice_site_ratio) = n

\* C11 witness: the call was made with use_equivalent_atom=True on a structure in
\* which two different classes lie on the same Wyckoff letter.
C11_Witness ==
    /\ info_pc = "done"
    /\ use_equivalent_atom
    /\ \E s, t \in 1..Len(equal_atom) :
          /\ wyckoff_sites[s] = wyckoff_sites[t]
          /\ equal_atom[s] # equal_atom[t]

\* ---- C12
\* The sublattice label of site s after applying equivalent_sites.
C12_Merged(s) ==
    LET label == wyckoff_site_list[s]
    IN  IF equivalent_sites.given /\ label \in DOMAIN equivalent_sites.map
        THEN equivalent_sites.map[label]
        ELSE label

\* C12: in the template of get_templates two sites carry the same element exactly
\* when their labels are the same after applying equivalent_sites; the property
\* 'sublattice_sites' of every site is that merged label; template_configuration
\* lists one element per merged sublattice, each once, and these are the elements
\* the sites carry.
C12_TemplateBySublattice ==
    end_pc \in {"endmembers", "done"} =>
        LET n == Len(wyckoff_site_list)
            m == Len(template_configuration)
        IN  /\ Len(template_structure) = n
            /\ \A s, t \in 1..n :
                  (template_structure[s].element = template_structure[t].element)
                      <=> (C12_Merged(s) = C12_Merged(t))
            /\ \A s \in 1..n : template_structure[s].sublattice_sites = C12_Merged(s)
            /\ m = Cardinality({C12_Merged(s) : s \in 1..n})
            /\ \A i, k \in 1..m :
                  template_configuration[i] = template_configuration[k] => i = k
            /\ {template_configuration[i] : i \in 1..m} =
                   {template_structure[s].element : s \in 1..n}

\* C12 witness: get_templates ran with equivalent_sites {'b': 'a'} on a structure
\* that has sites labelled 'a', sites labelled 'b' and a third sublattice.
C12_Witness ==
    /\ end_pc \in {"endmembers", "done"}
    /\ equivalent_sites.given
    /\ {"a", "b"} \subseteq Range(wyckoff_site_list)
    /\ \E s \in 1..Len(wyckoff_site_list) : wyckoff_site_list[s] \notin {"a", "b"}
    /\ \E s, t \in 1..Len(wyckoff_site_list) :
          /\ wyckoff_site_list[s] # wyckoff_site_list[t]
          /\ template_structure[s].element = template_structure[t].element

\* ---- C13
\* The configuration the claim expects for a dilute structure d obtained from the
\* (supercell of the) endmember e by the substitution at site i: every label of d is
\* a key; the substituted sublattice maps to [dilute species, host species], every
\* other sublattice to its single species.
C13_Expected(d, e, i) ==
    [l \in {d[s].sublattice_sites : s \in 1..Len(d)} |->
        IF l = d[i].sublattice_sites
        THEN <<d[i].element, e[i].element>>
        ELSE <<e[CHOOSE s \in 1..Len(e) : e[s].sublattice_sites = l].element>>]

\* C13: dilute_substitution returns (it does not raise), dilute_conf is as long as
\* dilute_strs, and dilute_conf[k] is the configuration of dilute_strs[k]: one key
\* per sublattice label, the single species of the sublattice or, for the sublattice
\* that received the substitution, [dilute species, host species].
C13_ConfAligned ==
    /\ dil_pc # "raise"
    /\ dil_pc = "done" =>
          /\ Len(dilute_conf) = Len(dilute_strs)
          /\ \A k \in 1..Len(dilute_strs) :
                LET d == dilute_strs[k]
                    structures == ExpandedStructures(dil_endmembers, supercell_matrix)
                IN  \E x \in 1..Len(structures) : \E i \in 1..Len(d) :
                        /\ Len(structures[x]) = Len(d)
                        /\ d[i].element # structures[x][i].element
                        /\ \A s \in 1..Len(d) :
                              /\ d[s].sublattice_sites = structures[x][s].sublattice_sites
                              /\ s # i => d[s].element = structures[x][s].element
                        /\ dilute_conf[k] = C13_Expected(d, structures[x], i)

\* The part of C13 about the returned lists alone, for the calls that return.
C13_ReturnedConfAligned ==
    dil_pc = "raise" \/ C13_ConfAligned

\* ---- C14
\* The (configuration, occupancies, site ratio) triple at position k of the fields.
C14_Triple(k) ==
    [configuration |-> prl_configuration[k],
     occupancies |-> prl_occupancies[k],
     site_ratio |-> prl_site_ratios[k]]

\* C14, the fields after any sequence of calls: the three lists have one length and
\* every triple occurs, position by position, as often as in the initial lists.
C14_TriplesKept ==
    prl_pc \in {"ready", "reindex"} =>
        LET n == Len(prl_created)
        IN  /\ Len(prl_configuration) = n
            /\ Len(prl_occupancies) = n
            /\ Len(prl_site_ratios) = n
            /\ \A t \in PrlSublattices :
                  Cardinality({k \in 1..n : C14_Triple(k) = t}) =
                      Cardinality({k \in 1..n : prl_created[k] = t})

\* Whether the list is a permutation of 0..n-1.
C14_IsPermutation(l, n) ==
    /\ Len(l) = n
    /\ \A i \in 0..(n - 1) : \E j \in 1..n : l[j] = i

\* C14, one call: new_indices that are not a permutation of 0..n-1 raise ValueError
\* and leave the three fields as they were; otherwise the call returns and position
\* j of every field holds the old entry new_indices[j].
C14_CallStep ==
    (prl_pc = "reindex" /\ prl_pc' = "ready") =>
        LET n == Len(prl_configuration)
        IN  IF C14_IsPermutation(new_indices, n)
            THEN /\ prl_outcome' = "returned"
                 /\ Len(prl_configuration') = n
                 /\ Len(prl_occupancies') = n
                 /\ Len(prl_site_ratios') = n
                 /\ \A j \in 1..n :
                       /\ prl_configuration'[j] = prl_configuration[new_indices[j] + 1]
                       /\ prl_occupancies'[j] = prl_occupancies[new_indices[j] + 1]
                       /\ prl_site_ratios'[j] = prl_site_ratios[new_indices[j] + 1]
            ELSE /\ prl_outcome' = "ValueError"
                 /\ UNCHANGED <<prl_configuration, prl_occupancies, prl_site_ratios>>

\* C14: the invariant of the fields and the effect of every call.
C14_ReindexKeepsTriples == [](C14_TriplesKept) /\ [][C14_CallStep]_vars

\* C14 witness: an accepted call has reordered the fields of a structure whose
\* sublattices differ, and a call with a rejected list is what came last.
C14_Witness ==
    /\ prl_pc = "ready"
    /\ prl_outcome = "ValueError"
    /\ \E k \in 1..Len(prl_created) : C14_Triple(k) # prl_created[k]

\* ---- C15
\* The abstract site ratios: the site counts of the abstract species divided by the
\* greatest number that divides them all.
C15_Divisor ==
    LET counts == UNION {Range(abs_sites[k]) : k \in 1..Len(abs_sites)}
        common(g) == \A c \in counts : c % g = 0
        largest == CHOOSE c \in counts : \A d \in counts : d <= c
    IN  CHOOSE g \in 1..largest : common(g) /\ \A h \in (g + 1)..largest : ~common(h)

C15_Ratio(k, j) == abs_sites[k][j] \div C15_Divisor

\* The sum of the abstract site ratios of sublattice k
C15_RatioSum(k) == SumSeq([j \in 1..Len(abs_sites[k]) |-> C15_Ratio(k, j)])

\* The sum of the abstract site ratios of the abstract species of sublattice k that
\* subl_model maps to the concrete species c
C15_RatioOf(k, c) ==
    SumSeq([j \in 1..Len(abs_sites[k]) |->
               IF subl_model[k][j] = c THEN C15_Ratio(k, j) ELSE 0])

\* The sum of a list of fractions <<numerator, denominator>>, as a fraction.
RECURSIVE C15_FractionSum(_)
C15_FractionSum(fs) ==
    IF fs = <<>> THEN <<0, 1>>
    ELSE LET rest == C15_FractionSum(Tail(fs))
         IN  <<fs[1][1] * rest[2] + rest[1] * fs[1][2], fs[1][2] * rest[2]>>

C15_SameShape ==
    /\ Len(subl_model) = Len(sublattice_model)
    /\ \A k \in 1..Len(subl_model) : Len(subl_model[k]) = Len(sublattice_model[k])

\* C15: for a subl_model of the shape of the abstract model get_concrete_sqs returns
\* a structure whose sublattice_configuration[k] is the sorted set of the species of
\* subl_model[k], whose occupancies follow that order, each being
\* (ratios of the abstract species mapped to the species) / (ratios of sublattice k),
\* so that they sum to 1, and whose sublattice_site_ratios[k] is the sum of the
\* abstract site ratios of sublattice k.
C15_ConcreteFields ==
    (sqs_call = "get_concrete_sqs" /\ sqs_pc # "call" /\ C15_SameShape) =>
        /\ sqs_pc = "done"
        /\ Len(sqs_result) = 1
        /\ LET r == sqs_result[1]
               n == Len(subl_model)
           IN  /\ Len(r.sublattice_configuration) = n
               /\ Len(r.sublattice_occupancies) = n
               /\ Len(r.sublattice_site_ratios) = n
               /\ \A k \in 1..n :
                     LET conf == r.sublattice_configuration[k]
                         occ == r.sublattice_occupancies[k]
                     IN  /\ conf = SortedSet(Range(subl_model[k]))
                         /\ Len(occ) = Len(conf)
                         /\ \A i \in 1..Len(conf) :
                               /\ occ[i][2] > 0
                               /\ occ[i][1] * C15_RatioSum(k) =
                                      C15_RatioOf(k, conf[i]) * occ[i][2]
                         /\ C15_FractionSum(occ)[1] = C15_FractionSum(occ)[2]
                         /\ r.sublattice_site_ratios[k] = C15_RatioSum(k)

\* C15 witness: a call returned for a sublattice on which two abstract species with
\* different site ratios were mapped to one concrete species, and for a sublattice
\* whose concrete species were not given in sorted order.
C15_Witness ==
    /\ sqs_call = "get_concrete_sqs"
    /\ sqs_pc = "done"
    /\ C15_SameShape
    /\ \E k \in 1..Len(subl_model) :
          /\ Len(subl_model[k]) >= 2
          /\ abs_sites[k][1] # abs_sites[k][2]
          /\ \/ subl_model[k][1] = subl_model[k][2]
             \/ StrLess(subl_model[k][2], subl_model[k][1])

====
